---- MODULE Spec2Model ----
(***************************************************************************)
(* The vonx message exchange (vonx/services/exchange.py).                  *)
(*                                                                         *)
(* Exchange._run is the routing loop: it owns queue, processed and         *)
(* pending and serves one command at a time from the command pipe.         *)
(* Exchange.send / recv / status / stop are run by any number of callers;  *)
(* each of them takes the request condition's lock, then the command       *)
(* lock, writes a command to the pipe and reads one reply.                 *)
(***************************************************************************)
EXTENDS Integers, Sequences, FiniteSets, TLC

\* ---------------------------------------------------------------- bounds
\* Number of Exchange.send calls made in one behaviour.
MaxSends == 2

\* The threads / processes calling the Exchange, the recipient identifiers
\* and the payloads they use.
\* p1 and p2 are the poll threads of two MessageProcessors.
PollThreads == {"p1", "p2"}
\* c1, c2 and c3 are threads of the application.
AppThreads == {"c1", "c2", "c3"}
\* The thread of a RequestExecutor that runs _send_messages.
Sender == "xs"
Callers == AppThreads \cup PollThreads \cup {Sender}
\* The callers that produce (send, status, stop) and those that consume
\* (recv) in the behaviours explored.
Producers == {"c1"}
Consumers == {"c2", "c3"}
\* c3 receives the way MessageProcessor._poll_messages does, recv(pid) on
\* its own identifier with the default arguments; c2 uses every recipient
\* and every combination of the arguments.
PollingConsumers == {"c3"}
PollPid == "a"
Pids == {"a", "b"}
Payloads == {"hello"}

\* Python's None, for string-valued and for record-valued places.
NoneS == "None"
NoneV == [kind |-> "None"]
TrueV == [kind |-> "True"]

\* Number of envelopes the application sends to the processors in one
\* behaviour.
MaxPosts == 1

\* The literal of line 497, the payload of the envelope stop() sends.
StopMessage == "stop"
\* ExchangeError('Exception during message processing', True), line 503,
\* and an ExchangeError made elsewhere.
ProcessingError == "ExchangeError(Exception during message processing)"
OtherError == "ExchangeError(other)"
ExchangeErrors == {ProcessingError, OtherError}
\* The (ident, payload) pairs of the envelopes sent to the processors: a
\* request with or without an ident, a stray stop and a stray error.
Idents == {NoneS, "i1"}
PostEnvelopes == (Idents \X {"hello"}) \cup
                 ({NoneS} \X {StopMessage, OtherError})
\* The from_pid of these envelopes: the recipient of the replies.
PostFrom == "b"
\* What a handler (_process_message) does with an envelope: it returns
\* None, True or False, or it raises.
Outcomes == {"None", "True", "False", "raise"}
\* The handler has not been called for the envelope in `received`.
NotCalled == "not called"

\* Number of RequestExecutor.submit calls made in one behaviour.
MaxSubmits == 2

\* Number of submit calls made in a behaviour in which the executor is
\* stopped.
MaxStopSubmits == 1

\* With a RequestExecutor, p1 is its poll thread and p2 the poll thread of
\* the processor that answers its requests.
Executor == "p1"
Responder == "p2"
ExecutorPid == "a"
ResponderPid == "b"
\* os.urandom(10): the idents a request can get.
RequestIdents == {"i1", "i2"}
\* timeout argument of submit: None, 0 or a positive duration T.
SubmitTimeouts == {NoneS, "0", "T"}
\* The values Python takes for false in `if timeout:` and `if received.ref:`
Falsy == {NoneS, "0", ""}
\* The payloads the answering processor puts in its replies.
ReplyPayloads == {"hello", "stop"}

\* timeout argument of recv: None or a duration T.
Timeouts == {NoneS, "T"}

\* The (to_pid, blocking, timeout) arguments a caller passes to recv.
RecvArgs(c) ==
    IF c \in PollingConsumers THEN {<<PollPid, TRUE, NoneS>>}
    ELSE Pids \X BOOLEAN \X Timeouts

\* ------------------------------------------------------------------ state
VARIABLES
    \* Exchange._run locals
    running,        \* the routing loop has not left `while True`
    queue,          \* dict to_pid -> deque of wrappers
    processed,      \* dict to_pid -> count of dequeued wrappers
    pending,        \* int
    \* Exchange fields
    pipeIn,         \* _cmd_pipe, commands written by callers
    pipeOut,        \* _cmd_pipe, replies written by the routing loop
    cmdLock,        \* _cmd_lock: its holder, or NoneS
    condLock,       \* the lock of _req_cond: its holder, or NoneS
    \* per caller
    pc,             \* position in send / recv / status / stop
    call,           \* the call in progress (or the last one) and its arguments
    locked,         \* recv's local `locked`
    message,        \* recv's local `message`; the reply of _cmd for the others
    waited,         \* recv is inside its while loop
    \* history
    expired,        \* the timeout of the caller's wait has elapsed
    afterStop,      \* the call was issued after the routing loop exited
    accepted,       \* to_pid -> wrappers accepted by the routing loop, in order
    returned,       \* to_pid -> wrappers obtained by recv(to_pid), in order,
                    \* each with the caller that obtained it
    nsent,          \* number of send calls made so far
    \* per MessageProcessor (named by its poll thread)
    received,       \* _poll_messages' local `received`
    ppc,            \* position of the poll thread in _poll_messages
    pidOf,          \* _pid
    \* history of the processors
    stopCalled,     \* the processors whose stop() has been called
    failed,         \* the envelopes on which a handler raised, with the
                    \* processor that handled them
    errSent,        \* the replies sent by _reply_with_error, each with the
                    \* envelope it answers
    outcome,        \* what _process_message did with `received`, until
                    \* the next recv
    \* RequestExecutor
    futures,        \* the Future of every submit call, in the order of the
                    \* calls
    subs,           \* the arguments of every submit call, the ident
                    \* _send_request generated for it and the uid of the
                    \* envelope it put on the out-queue (0: none)
    tasks,          \* the coroutines handed to run_task and not finished
    requests,       \* _requests: ident -> (index of) future
    outQueue,       \* _out_queue
    spc,            \* position of the sender thread in _send_messages
    stp             \* position of the thread that called
                    \* RequestExecutor.stop

brokerVars == <<running, queue, processed, pending>>
chanVars == <<pipeIn, pipeOut, cmdLock, condLock>>
callerVars == <<pc, call, locked, message, waited>>
histVars == <<expired, afterStop, accepted, returned, nsent>>
procVars == <<ppc, pidOf, stopCalled, failed, errSent, outcome>>
execVars == <<futures, subs, tasks, requests, outQueue, spc, stp>>
appVars == <<procVars, execVars>>
hostVars == <<received, appVars>>
vars == <<brokerVars, chanVars, callerVars, histVars, hostVars>>

\* ----------------------------------------------------------- data values
\* MessageWrapper(from_pid, ident, message, ref); uid tells apart two
\* wrappers with equal fields (two distinct objects sent by two calls).
MessageWrapper(from_pid, ident, msg, ref, uid) ==
    [kind |-> "wrapper", from_pid |-> from_pid, ident |-> ident,
     message |-> msg, ref |-> ref, uid |-> uid]

NoCall == [op |-> "none", to_pid |-> NoneS, wrapper |-> NoneV,
           blocking |-> FALSE, timeout |-> NoneS]
SendCall(to_pid, wrapper) == [NoCall EXCEPT !.op = "send", !.to_pid = to_pid,
                                            !.wrapper = wrapper]
RecvCall(to_pid, blocking, timeout) ==
    [NoCall EXCEPT !.op = "recv", !.to_pid = to_pid, !.blocking = blocking,
                   !.timeout = timeout]
StatusCall == [NoCall EXCEPT !.op = "status"]
StopCall == [NoCall EXCEPT !.op = "stop"]

\* The command tuple a call writes to the pipe.
Command(c) == [op |-> call[c].op, to_pid |-> call[c].to_pid,
               wrapper |-> call[c].wrapper]

RECURSIVE SumOver(_, _)
SumOver(f, S) ==
    IF S = {} THEN 0
    ELSE LET k == CHOOSE x \in S : TRUE IN f[k] + SumOver(f, S \ {k})

\* sum(processed.values())
SumValues(d) == SumOver(d, DOMAIN d)

\* queue[to_pid] as a sequence, empty when the key is absent
QueueOf(r) == IF r \in DOMAIN queue THEN queue[r] ELSE <<>>

\* (variant: the count starts again at every recv)
ProcessedGetZero(d, r) == 0

\* processed.get(to_pid, 0)
ProcessedGet(d, r) == IF r \in DOMAIN d THEN d[r] ELSE 0

\* (variant: the counters of the other recipients are forgotten)
CountDequeuedAlone(d, r) == (r :> ProcessedGet(d, r) + 1)

\* line 324: processed[to_pid] = processed.get(to_pid, 0) + 1
CountDequeued(d, r) == (r :> ProcessedGet(d, r) + 1) @@ d

\* ------------------------------------------------------------------- init
\* The Exchange after start(), with no call in progress.
ExchangeInit ==
    /\ running = TRUE
    /\ queue = <<>>
    /\ processed = <<>>
    /\ pending = 0
    /\ pipeIn = <<>>
    /\ pipeOut = <<>>
    /\ cmdLock = NoneS
    /\ condLock = NoneS
    /\ pc = [c \in Callers |-> "idle"]
    /\ call = [c \in Callers |-> NoCall]
    /\ locked = [c \in Callers |-> FALSE]
    /\ message = [c \in Callers |-> NoneV]
    /\ waited = [c \in Callers |-> FALSE]
    /\ expired = [c \in Callers |-> FALSE]
    /\ afterStop = [c \in Callers |-> FALSE]
    /\ accepted = [r \in Pids |-> <<>>]
    /\ returned = [r \in Pids |-> <<>>]
    /\ nsent = 0
    /\ received = [c \in PollThreads |-> NoneV]
    /\ stopCalled = {}
    /\ failed = {}
    /\ errSent = {}
    /\ outcome = [p \in PollThreads |-> NotCalled]

\* A RequestExecutor with no request made yet.
ExecutorInit(started) ==
    /\ futures = <<>>
    /\ subs = <<>>
    /\ tasks = {}
    /\ requests = <<>>
    /\ outQueue = <<>>
    /\ spc = IF started THEN "get" ELSE "off"
    /\ stp = "idle"

\* An Exchange used by plain callers: no MessageProcessor is started.
Init ==
    /\ ExchangeInit
    /\ ExecutorInit(FALSE)
    /\ ppc = [p \in PollThreads |-> "off"]
    /\ pidOf = [p \in PollThreads |-> PollPid]

\* --------------------------------------------------- Exchange._run (loop)
\* (variant: the deque is created anew on every send)
EnqueueFresh(q, to_pid, wrapper) ==
    IF to_pid \in DOMAIN q
    THEN [q EXCEPT ![to_pid] = <<wrapper>>]
    ELSE q @@ (to_pid :> <<wrapper>>)

\* queue[to_pid].append(wrapper), creating the deque when the key is new
Enqueue(q, to_pid, wrapper) ==
    IF to_pid \in DOMAIN q
    THEN [q EXCEPT ![to_pid] = Append(@, wrapper)]
    ELSE q @@ (to_pid :> <<wrapper>>)

\* (variant: deque.pop(), taking the newest element)
PopRight(d) == [item |-> d[Len(d)], rest |-> SubSeq(d, 1, Len(d) - 1)]

\* (variant: queue[to_pid][0], reading the head without removing it)
PeekLeft(d) == [item |-> Head(d), rest |-> d]

\* deque.popleft(): the element taken and the deque left
PopLeft(d) == [item |-> Head(d), rest |-> Tail(d)]

\* (variant: `pending -= 1` placed after the try block)
PendingAlwaysDecremented(p, found) == p - 1

\* pending after a recv command that found (or did not find) a message
PendingAfterRecv(p, found) == IF found THEN p - 1 ELSE p

\* (variant: total taken from the pending counter)
StatusReplyTotalPending(pend, proc) ==
    [kind |-> "status", pending |-> pend, processed |-> proc,
     total |-> pend]

\* the reply to a status command
StatusReply(pend, proc) ==
    [kind |-> "status", pending |-> pend, processed |-> proc,
     total |-> SumValues(proc)]

\* (variant: the `break` of the stop branch is missing)
ContinuesAlways(op) == TRUE

\* whether the loop goes on after a command
ContinuesAfter(op) == op # "stop"

RunSend ==
    /\ running
    /\ pipeIn # <<>>
    /\ Head(pipeIn).op = "send"
    /\ LET command == Head(pipeIn) IN
        /\ queue' = Enqueue(queue, command.to_pid, command.wrapper)
        /\ pending' = pending + 1
        /\ accepted' = [accepted EXCEPT ![command.to_pid] =
                            Append(@, command.wrapper)]
    /\ pipeIn' = Tail(pipeIn)
    /\ pipeOut' = Append(pipeOut, TrueV)
    /\ running' = ContinuesAfter("send")
    /\ UNCHANGED hostVars
    /\ UNCHANGED <<processed, cmdLock, condLock, callerVars,
                   expired, afterStop, returned, nsent>>

RunRecv ==
    /\ running
    /\ pipeIn # <<>>
    /\ Head(pipeIn).op = "recv"
    /\ LET to_pid == Head(pipeIn).to_pid
           found == to_pid \in DOMAIN queue /\ queue[to_pid] # <<>>
       IN
        /\ IF found
           THEN LET popped == PopLeft(queue[to_pid]) IN
                /\ queue' = [queue EXCEPT ![to_pid] = popped.rest]
                /\ processed' = CountDequeued(processed, to_pid)
                /\ pipeOut' = Append(pipeOut, popped.item)
           ELSE /\ UNCHANGED <<queue, processed>>
                /\ pipeOut' = Append(pipeOut, NoneV)
        /\ pending' = PendingAfterRecv(pending, found)
    /\ pipeIn' = Tail(pipeIn)
    /\ running' = ContinuesAfter("recv")
    /\ UNCHANGED hostVars
    /\ UNCHANGED <<cmdLock, condLock, callerVars, histVars>>

RunStatus ==
    /\ running
    /\ pipeIn # <<>>
    /\ Head(pipeIn).op = "status"
    /\ pipeOut' = Append(pipeOut, StatusReply(pending, processed))
    /\ pipeIn' = Tail(pipeIn)
    /\ running' = ContinuesAfter("status")
    /\ UNCHANGED hostVars
    /\ UNCHANGED <<queue, processed, pending, cmdLock, condLock,
                   callerVars, histVars>>

RunStop ==
    /\ running
    /\ pipeIn # <<>>
    /\ Head(pipeIn).op = "stop"
    /\ pipeOut' = Append(pipeOut, TrueV)
    /\ pipeIn' = Tail(pipeIn)
    /\ running' = ContinuesAfter("stop")
    /\ UNCHANGED hostVars
    /\ UNCHANGED <<queue, processed, pending, cmdLock, condLock,
                   callerVars, histVars>>

\* ------------------------------------------------- Exchange.recv (caller)
\* (variant: while message is None)
WhileMessageIsNone(msg, blocking, timeout) == msg = NoneV

\* line 286: while message is None and (blocking or timeout != None)
WhileCond(msg, blocking, timeout) ==
    msg = NoneV /\ (blocking \/ timeout # NoneS)

\* (variant: the loop is left after the first wakeup)
BreakAfterWakeup(lck, msg, timeout) == TRUE

\* line 290: if not locked or message != None or timeout != None: break
BreakCond(lck, msg, timeout) ==
    ~lck \/ msg # NoneV \/ timeout # NoneS

\* After a reply to the recv command: TRUE when recv leaves its while loop
\* (or never enters it), FALSE when it goes on to wait on the condition.
LeavesLoop(inloop, lck, msg, blocking, timeout) ==
    \/ inloop /\ BreakCond(lck, msg, timeout)
    \/ ~WhileCond(msg, blocking, timeout)

\* --------------------------------------------------------------- callers
\* A caller enters send, recv, status or stop.
Enter(c, newcall) ==
    /\ pc[c] = "idle"
    /\ pc' = [pc EXCEPT ![c] = "acquire"]
    /\ call' = [call EXCEPT ![c] = newcall]
    /\ afterStop' = [afterStop EXCEPT ![c] = ~running]
    /\ UNCHANGED received
    /\ UNCHANGED <<brokerVars, chanVars, locked, message, waited, expired,
                   accepted, returned>>

\* The value the call is about to return, at its last step.
RetVal(c) == IF call[c].op = "stop" THEN NoneV ELSE message[c]

\* The call returns: its locals are gone.  A poll thread keeps what recv
\* returned (line 495: received = self._exchange.recv(self._pid)).
Leave(c) ==
    /\ pc' = [pc EXCEPT ![c] = "idle"]
    /\ call' = [call EXCEPT ![c] = NoCall]
    /\ locked' = [locked EXCEPT ![c] = FALSE]
    /\ message' = [message EXCEPT ![c] = NoneV]
    /\ waited' = [waited EXCEPT ![c] = FALSE]
    /\ expired' = [expired EXCEPT ![c] = FALSE]
    /\ afterStop' = [afterStop EXCEPT ![c] = FALSE]
    /\ received' = IF c \in PollThreads /\ call[c].op = "recv"
                   THEN [received EXCEPT ![c] = RetVal(c)]
                   ELSE received

CallSend(c) ==
    /\ c \in Producers
    /\ nsent < MaxSends
    /\ \E to_pid \in Pids, m \in Payloads :
          Enter(c, SendCall(to_pid,
                     MessageWrapper(c, NoneS, m, NoneS, nsent + 1)))
    /\ nsent' = nsent + 1
    /\ UNCHANGED appVars

CallRecv(c) ==
    /\ c \in Consumers
    /\ \E args \in RecvArgs(c) :
          Enter(c, RecvCall(args[1], args[2], args[3]))
    /\ UNCHANGED <<nsent, appVars>>

CallStatus(c) ==
    /\ c \in Producers
    /\ Enter(c, StatusCall)
    /\ UNCHANGED <<nsent, appVars>>

CallStop(c) ==
    /\ c \in Producers
    /\ Enter(c, StopCall)
    /\ UNCHANGED <<nsent, appVars>>

\* `with self._req_cond:` of send, status and stop, and
\* `self._req_cond.acquire(blocking)` of recv.
Acquire(c) ==
    /\ pc[c] = "acquire"
    /\ IF condLock = NoneS
       THEN /\ condLock' = c
            /\ locked' = [locked EXCEPT ![c] = TRUE]
            /\ pc' = [pc EXCEPT ![c] = "cmd_lock"]
       ELSE \* only a non-blocking acquire returns without the lock
            /\ call[c].op = "recv" /\ ~call[c].blocking
            /\ UNCHANGED <<condLock, locked>>
            /\ pc' = [pc EXCEPT ![c] = "finish"]
    /\ UNCHANGED hostVars
    /\ UNCHANGED <<brokerVars, pipeIn, pipeOut, cmdLock, call, message,
                   waited, histVars>>

\* _cmd: with self._cmd_lock
CmdLock(c) ==
    /\ pc[c] = "cmd_lock"
    /\ cmdLock = NoneS
    /\ cmdLock' = c
    /\ pc' = [pc EXCEPT ![c] = "cmd_send"]
    /\ UNCHANGED hostVars
    /\ UNCHANGED <<brokerVars, pipeIn, pipeOut, condLock, call, locked,
                   message, waited, histVars>>

\* _cmd: self._cmd_pipe[1].send(command)
CmdSend(c) ==
    /\ pc[c] = "cmd_send"
    /\ pipeIn' = Append(pipeIn, Command(c))
    /\ pc' = [pc EXCEPT ![c] = "cmd_recv"]
    /\ UNCHANGED hostVars
    /\ UNCHANGED <<brokerVars, pipeOut, cmdLock, condLock, call, locked,
                   message, waited, histVars>>

\* _cmd: return self._cmd_pipe[1].recv(), releasing _cmd_lock; the caller
\* then goes on in send / recv / status / stop.
CmdRecv(c) ==
    /\ pc[c] = "cmd_recv"
    /\ pipeOut # <<>>
    /\ LET reply == Head(pipeOut) IN
        /\ message' = [message EXCEPT ![c] = reply]
        /\ pc' = [pc EXCEPT ![c] =
                    CASE call[c].op = "send" -> "notify"
                      [] call[c].op = "recv" ->
                            IF LeavesLoop(waited[c], locked[c], reply,
                                          call[c].blocking, call[c].timeout)
                            THEN "finish" ELSE "wait_enter"
                      [] OTHER -> "release"]
        /\ returned' = IF call[c].op = "recv" /\ reply # NoneV
                       THEN [returned EXCEPT ![call[c].to_pid] =
                                Append(@, [wrapper |-> reply, by |-> c])]
                       ELSE returned
    /\ pipeOut' = Tail(pipeOut)
    /\ cmdLock' = NoneS
    /\ UNCHANGED hostVars
    /\ UNCHANGED <<brokerVars, pipeIn, condLock, call, locked, waited,
                   expired, afterStop, accepted, nsent>>

\* send: self._req_cond.notify_all()
NotifyAll(c) ==
    /\ pc[c] = "notify"
    /\ pc' = [d \in Callers |->
                IF d = c THEN "release"
                ELSE IF pc[d] = "wait" THEN "reacq_notified" ELSE pc[d]]
    /\ UNCHANGED hostVars
    /\ UNCHANGED <<brokerVars, chanVars, call, locked, message, waited,
                   histVars>>

\* send, status, stop: leaving `with self._req_cond:` and returning
Release(c) ==
    /\ pc[c] = "release"
    /\ condLock' = NoneS
    /\ Leave(c)
    /\ UNCHANGED appVars
    /\ UNCHANGED <<brokerVars, pipeIn, pipeOut, cmdLock, accepted, returned,
                   nsent>>

\* recv: self._req_cond.wait(timeout) releases the lock and sleeps
Wait(c) ==
    /\ pc[c] = "wait_enter"
    /\ condLock' = NoneS
    /\ pc' = [pc EXCEPT ![c] = "wait"]
    /\ waited' = [waited EXCEPT ![c] = TRUE]
    /\ UNCHANGED hostVars
    /\ UNCHANGED <<brokerVars, pipeIn, pipeOut, cmdLock, call, locked,
                   message, histVars>>

\* the timeout of a wait elapses before any notification
Expire(c) ==
    /\ pc[c] = "wait"
    /\ call[c].timeout # NoneS
    /\ pc' = [pc EXCEPT ![c] = "reacq_timeout"]
    /\ expired' = [expired EXCEPT ![c] = TRUE]
    /\ UNCHANGED hostVars
    /\ UNCHANGED <<brokerVars, chanVars, call, locked, message, waited,
                   afterStop, accepted, returned, nsent>>

\* wait() re-acquires the lock whether it was notified or timed out and
\* returns TRUE unless it timed out; recv stores that in `locked`.
Reacquire(c) ==
    /\ pc[c] \in {"reacq_notified", "reacq_timeout"}
    /\ condLock = NoneS
    /\ condLock' = c
    /\ locked' = [locked EXCEPT ![c] = (pc[c] = "reacq_notified")]
    /\ pc' = [pc EXCEPT ![c] =
                IF pc[c] = "reacq_notified" THEN "cmd_lock" ELSE "finish"]
    /\ UNCHANGED hostVars
    /\ UNCHANGED <<brokerVars, pipeIn, pipeOut, cmdLock, call, message,
                   waited, histVars>>

\* recv: `if locked: self._req_cond.release()` and `return message`
Finish(c) ==
    /\ pc[c] = "finish"
    /\ condLock' = IF locked[c] THEN NoneS ELSE condLock
    /\ Leave(c)
    /\ UNCHANGED appVars
    /\ UNCHANGED <<brokerVars, pipeIn, pipeOut, cmdLock, accepted, returned,
                   nsent>>

\* ------------------------------------------------------ MessageProcessor
\* The part of a step that makes no call to the Exchange.
ExchangeIdle ==
    UNCHANGED <<brokerVars, chanVars, callerVars, expired, afterStop,
                accepted, returned, received>>

NoExchangeCall == ExchangeIdle /\ UNCHANGED nsent

\* The number of envelopes the application has sent to the processors.
Posted == nsent - Cardinality(errSent) - Cardinality(stopCalled)

\* MessageTarget.send: the application sends an envelope to a recipient.
Post(c) ==
    /\ c \in Producers
    /\ Posted < MaxPosts
    /\ \E to_pid \in Pids, im \in PostEnvelopes :
          Enter(c, SendCall(to_pid,
                     MessageWrapper(PostFrom, im[1], im[2], NoneS,
                                    nsent + 1)))
    /\ nsent' = nsent + 1
    /\ UNCHANGED appVars

\* MessageProcessor.stop, called by the application:
\* self.send_noreply(self._pid, 'stop')
ProcessorStop(c, p) ==
    /\ c \in Producers
    /\ ppc[p] # "off"
    /\ p \notin stopCalled
    /\ Enter(c, SendCall(pidOf[p],
                  MessageWrapper(pidOf[p], NoneS, StopMessage, NoneS,
                                 nsent + 1)))
    /\ nsent' = nsent + 1
    /\ stopCalled' = stopCalled \cup {p}
    /\ UNCHANGED <<ppc, pidOf, failed, errSent, outcome, execVars>>

\* line 495: received = self._exchange.recv(self._pid), at the top of the
\* loop or after _reply_with_error has returned
PollRecv(p) ==
    /\ ppc[p] \in {"poll", "reply"}
    /\ Enter(p, RecvCall(pidOf[p], TRUE, NoneS))
    /\ ppc' = [ppc EXCEPT ![p] = "recv"]
    /\ outcome' = [outcome EXCEPT ![p] = NotCalled]
    /\ UNCHANGED <<nsent, pidOf, stopCalled, failed, errSent, execVars>>

\* (variant: only a stop envelope the processor sent itself ends the loop)
IsOwnStopSignal(p, e) == e.message = StopMessage /\ e.from_pid = pidOf[p]

\* line 497: if received.message == 'stop'
IsStopSignal(p, e) == e.message = StopMessage

\* (variant: if not self._process_message(received))
BreaksOnFalsy(result) == result \in {"False", "None"}

\* line 500: if self._process_message(received) is False
BreaksOn(result) == result = "False"

\* (variant: the reply is sent with send(), the ident of the failing
\* envelope becoming the ident of the reply)
ErrorReplyWithIdent(p, e, uid) ==
    SendCall(e.from_pid,
             MessageWrapper(pidOf[p], e.ident, ProcessingError, NoneS, uid))

\* line 522 with lines 570-572:
\* self.send_noreply(from_message.from_pid, errmsg, from_message.ident)
ErrorReply(p, e, uid) ==
    SendCall(e.from_pid,
             MessageWrapper(pidOf[p], NoneS, ProcessingError, e.ident, uid))

\* (variant: an ExchangeError is answered like any other payload)
AnswersEveryFailure(e) == TRUE

\* line 519: an envelope carrying an ExchangeError is not answered
AnswersFailure(e) == e.message \notin ExchangeErrors

\* (variant: the exception leaves the while loop)
AfterErrorExits(replying) == "exited"

\* lines 501-504: the exception is caught inside the loop, which goes on
\* once _reply_with_error has returned
AfterError(replying) == IF replying THEN "reply" ELSE "poll"

\* lines 501-504 and 508-522: except Exception, _reply_with_error
ReplyWithError(p, e) ==
    /\ failed' = failed \cup {[wrapper |-> e, by |-> p]}
    /\ ppc' = [ppc EXCEPT ![p] = AfterError(AnswersFailure(e))]
    /\ IF AnswersFailure(e)
       THEN /\ Enter(p, ErrorReply(p, e, nsent + 1))
            /\ nsent' = nsent + 1
            /\ errSent' = errSent \cup
                  {[cause |-> e.uid, by |-> p,
                    call |-> ErrorReply(p, e, nsent + 1)]}
       ELSE /\ NoExchangeCall
            /\ UNCHANGED errSent

\* lines 496-504: one envelope goes through the body of the loop
ProcessMessage(p) ==
    /\ ppc[p] = "recv"
    /\ pc[p] = "idle"
    /\ LET e == received[p] IN
       IF IsStopSignal(p, e)
       THEN /\ ppc' = [ppc EXCEPT ![p] = "exited"]
            /\ NoExchangeCall
            /\ UNCHANGED <<failed, errSent, outcome>>
       ELSE \E o \in Outcomes :
            /\ outcome' = [outcome EXCEPT ![p] = o]
            /\ IF o = "raise"
               THEN ReplyWithError(p, e)
               ELSE /\ ppc' = [ppc EXCEPT ![p] =
                                IF BreaksOn(o) THEN "exited" ELSE "poll"]
                    /\ NoExchangeCall
                    /\ UNCHANGED <<failed, errSent>>
    /\ UNCHANGED <<pidOf, stopCalled, execVars>>

\* Two started processors; the second one polls the same identifier as the
\* first or another one.
ProcInit ==
    /\ ExchangeInit
    /\ ExecutorInit(FALSE)
    /\ ppc = [p \in PollThreads |-> "poll"]
    /\ pidOf \in {f \in [PollThreads -> Pids] : f["p1"] = PollPid}

ProcNext ==
    \/ RunSend
    \/ RunRecv
    \/ \E c \in Callers : Post(c)
    \/ \E c \in Callers, p \in PollThreads : ProcessorStop(c, p)
    \/ \E p \in PollThreads : PollRecv(p)
    \/ \E p \in PollThreads : ProcessMessage(p)
    \/ \E c \in Callers : Acquire(c)
    \/ \E c \in Callers : CmdLock(c)
    \/ \E c \in Callers : CmdSend(c)
    \/ \E c \in Callers : CmdRecv(c)
    \/ \E c \in Callers : NotifyAll(c)
    \/ \E c \in Callers : Release(c)
    \/ \E c \in Callers : Wait(c)
    \/ \E c \in Callers : Reacquire(c)
    \/ \E c \in Callers : Finish(c)

ProcSpec == ProcInit /\ [][ProcNext]_vars

\* ------------------------------------------------------- RequestExecutor
\* `if x:` of Python
Truthy(x) == x \notin Falsy

\* concurrent.futures.Future: pending, or done with a result, with an
\* exception or by cancellation.  `by` is the uid of the envelope whose
\* message became the result; `slept` tells, of a cancelled future, that
\* the timeout of its request had elapsed when it was cancelled.
PendingFuture ==
    [state |-> "pending", value |-> NoneS, by |-> 0, slept |-> FALSE]
WithResult(v, uid) ==
    [state |-> "result", value |-> v, by |-> uid, slept |-> FALSE]
WithException(text) ==
    [state |-> "exception", value |-> text, by |-> 0, slept |-> FALSE]
CancelledFuture(slept) ==
    [state |-> "cancelled", value |-> NoneS, by |-> 0, slept |-> slept]
\* Future.done()
Done(fut) == fut.state # "pending"

\* The coroutines given to run_task.
Task(kind, f, ident, timeout, elapsed, rcvd) ==
    [kind |-> kind, f |-> f, ident |-> ident, timeout |-> timeout,
     elapsed |-> elapsed, received |-> rcvd]
SendRequestTask(f) == Task("send_request", f, NoneS, NoneS, FALSE, NoneV)
CancelTask(ident, timeout) ==
    Task("cancel", 0, ident, timeout, FALSE, NoneV)
HandleTask(rcvd) == Task("handle", 0, NoneS, NoneS, FALSE, rcvd)

\* run_task(coroutine): the coroutine becomes a task of the event loop,
\* which runs its tasks one at a time, each up to its next suspension.
RunTask(ts, t) == ts \cup {t}

\* Runner.stop(wait) stops the event loop: no task runs after it.
RunnerRunning == stp # "done"

\* The idents already generated.
UsedIdents == {subs[i].ident : i \in DOMAIN subs} \ {NoneS}

\* os.urandom(10) may return any value, one generated before included; the
\* first value generated is called "i1".
NewIdents == {i \in RequestIdents : i = "i1" \/ "i1" \in UsedIdents}

\* submit: result = Future(); run_task(_send_request(...))
Submit ==
    /\ spc # "off"
    /\ Len(futures) < MaxSubmits
    /\ \E request \in Payloads, timeout \in SubmitTimeouts :
        /\ futures' = Append(futures, PendingFuture)
        /\ subs' = Append(subs, [to_pid |-> ResponderPid,
                                 request |-> request,
                                 timeout |-> timeout, ident |-> NoneS,
                                 uid |-> 0])
        /\ tasks' = RunTask(tasks, SendRequestTask(Len(futures) + 1))
    /\ NoExchangeCall
    /\ UNCHANGED <<procVars, requests, outQueue, spc, stp>>

\* (variant: the ident is inserted without looking for it in the map)
NeverDuplicate(reqs, ident) == FALSE

\* line 703: if message.ident in self._requests
IsDuplicate(reqs, ident) == ident \in DOMAIN reqs

\* (variant: the map is left as it is, the future is not parked)
ParkNothing(reqs, ident, f) == reqs

\* line 706: self._requests[message.ident] = future
ParkRequest(reqs, ident, f) == (ident :> f) @@ reqs

\* _send_request, which has no suspension point: _req_lock is free whenever
\* a task asks for it, as no task is suspended while it holds it.
SendRequest(t) ==
    /\ RunnerRunning
    /\ t \in tasks
    /\ t.kind = "send_request"
    /\ \E ident \in NewIdents :
        LET f == t.f
            wrapper == MessageWrapper(pidOf[Executor], ident,
                                      subs[f].request, NoneS, nsent + 1)
        IN
        /\ subs' = [subs EXCEPT ![f].ident = ident,
                                ![f].uid = IF IsDuplicate(requests, ident)
                                           THEN 0 ELSE wrapper.uid]
        /\ IF IsDuplicate(requests, ident)
           THEN /\ futures' = [futures EXCEPT ![f] =
                       WithException("Duplicate request identifier")]
                /\ tasks' = tasks \ {t}
                /\ UNCHANGED <<requests, outQueue, nsent>>
           ELSE /\ requests' = ParkRequest(requests, ident, f)
                /\ outQueue' = Append(outQueue,
                       [to_pid |-> subs[f].to_pid, message |-> wrapper])
                /\ nsent' = nsent + 1
                /\ tasks' = IF Truthy(subs[f].timeout)
                            THEN RunTask(tasks \ {t},
                                         CancelTask(ident, subs[f].timeout))
                            ELSE tasks \ {t}
                /\ UNCHANGED futures
    /\ ExchangeIdle
    /\ UNCHANGED <<procVars, spc, stp>>

\* _cancel_request: the sleep of `await asyncio.sleep(timeout)` is over
TimerElapses(t) ==
    /\ t \in tasks
    /\ t.kind = "cancel"
    /\ Truthy(t.timeout)
    /\ ~t.elapsed
    /\ tasks' = (tasks \ {t}) \cup {[t EXCEPT !.elapsed = TRUE]}
    /\ NoExchangeCall
    /\ UNCHANGED <<procVars, futures, subs, requests, outQueue, spc, stp>>

\* (variant: the task does not sleep)
CancelsAtOnce(t) == TRUE

\* lines 721-722: the task has slept for its timeout, if it has one
HasSlept(t) == Truthy(t.timeout) => t.elapsed

\* _cancel_request after the sleep
CancelRequest(t) ==
    /\ RunnerRunning
    /\ t \in tasks
    /\ t.kind = "cancel"
    /\ HasSlept(t)
    /\ futures' = IF /\ t.ident \in DOMAIN requests
                     /\ ~Done(futures[requests[t.ident]])
                  THEN [futures EXCEPT ![requests[t.ident]] =
                                            CancelledFuture(t.elapsed)]
                  ELSE futures
    /\ tasks' = tasks \ {t}
    /\ NoExchangeCall
    /\ UNCHANGED <<procVars, subs, requests, outQueue, spc, stp>>

\* (variant: the reply is given to any parked request)
RequestForAny(reqs, ref) ==
    IF DOMAIN reqs # {} THEN reqs[CHOOSE i \in DOMAIN reqs : TRUE] ELSE 0

\* lines 754-755: self._requests[received.ref], 0 when there is no such key
RequestFor(reqs, ref) == IF ref \in DOMAIN reqs THEN reqs[ref] ELSE 0

\* (variant: the map is left as it is)
SweepNothing(reqs, futs) == reqs

\* lines 759-760: the entries of _requests whose future is not done
Sweep(reqs, futs) ==
    LET keep == {i \in DOMAIN reqs : ~Done(futs[reqs[i]])}
    IN [i \in keep |-> reqs[i]]

\* (variant: set_result whatever the state of the future)
SetsResultAlways(fut) == TRUE

\* line 756: if not self._requests[received.ref].cancelled()
NotCancelled(fut) == fut.state # "cancelled"

\* Future.set_result on a future that is done raises InvalidStateError
\* (Python 3.8 and later) or replaces what the future holds (before 3.8).
SetResultOutcomes(fut) == IF Done(fut) THEN {"raise", "set"} ELSE {"set"}

\* _handle_message_task / _handle_message, which has no suspension point.
\* An exception of set_result leaves `async with` before the sweep and is
\* caught on line 775: _reply_with_error puts its reply on the out-queue.
HandleMessage(t) ==
    /\ RunnerRunning
    /\ t \in tasks
    /\ t.kind = "handle"
    /\ LET e == t.received
           f == RequestFor(requests, e.ref)
           sets == Truthy(e.ref) /\ f # 0 /\ NotCancelled(futures[f])
           reply == ErrorReply(Executor, e, nsent + 1)
       IN
       \E o \in (IF sets THEN SetResultOutcomes(futures[f]) ELSE {"skip"}) :
        /\ futures' = IF o = "set"
                       THEN [futures EXCEPT ![f] =
                                 WithResult(e.message, e.uid)]
                       ELSE futures
        /\ requests' = IF Truthy(e.ref) /\ o # "raise"
                        THEN Sweep(requests, futures')
                        ELSE requests
        /\ failed' = IF o = "raise"
                      THEN failed \cup {[wrapper |-> e, by |-> Executor]}
                      ELSE failed
        /\ IF o = "raise" /\ AnswersFailure(e)
           THEN /\ outQueue' = Append(outQueue,
                       [to_pid |-> reply.to_pid, message |-> reply.wrapper])
                /\ nsent' = nsent + 1
                /\ errSent' = errSent \cup
                      {[cause |-> e.uid, by |-> Executor, call |-> reply]}
           ELSE UNCHANGED <<outQueue, nsent, errSent>>
    /\ tasks' = tasks \ {t}
    /\ ExchangeIdle
    /\ UNCHANGED <<ppc, pidOf, stopCalled, outcome, subs, spc, stp>>

\* (variant: a LIFO queue, get() taking the entry put last)
QueueGetNewest(q) == [item |-> q[Len(q)], rest |-> SubSeq(q, 1, Len(q) - 1)]

\* line 670: Queue.get() takes the entry put first
QueueGet(q) == [item |-> Head(q), rest |-> Tail(q)]

\* _send_messages: msg = self._out_queue.get(), after task_done() for the
\* message before; then self._exchange.send(msg.to_pid, msg.message)
SenderStep ==
    /\ spc \in {"get", "send"}
    /\ pc[Sender] = "idle"
    /\ outQueue # <<>>
    /\ LET msg == QueueGet(outQueue).item IN
       /\ outQueue' = QueueGet(outQueue).rest
       /\ IF msg = NoneV
          THEN /\ spc' = "exited"
               /\ ExchangeIdle
          ELSE /\ spc' = "send"
               /\ Enter(Sender, SendCall(msg.to_pid, msg.message))
    /\ UNCHANGED <<nsent, procVars, futures, subs, tasks, requests, stp>>

\* lines 496-500 with RequestExecutor._process_message: the envelope is
\* handed to the event loop and the loop of the poll thread goes on
ExecutorProcessMessage(p) ==
    /\ p = Executor
    /\ ppc[p] = "recv"
    /\ pc[p] = "idle"
    /\ IF IsStopSignal(p, received[p])
       THEN /\ ppc' = [ppc EXCEPT ![p] = "exited"]
            /\ UNCHANGED <<outcome, tasks>>
       ELSE /\ tasks' = RunTask(tasks, HandleTask(received[p]))
            /\ outcome' = [outcome EXCEPT ![p] = "True"]
            /\ ppc' = [ppc EXCEPT ![p] =
                         IF BreaksOn("True") THEN "exited" ELSE "poll"]
    /\ NoExchangeCall
    /\ UNCHANGED <<pidOf, stopCalled, failed, errSent, futures, subs,
                   requests, outQueue, spc, stp>>

\* The ref of an answer: the ident of the request, as HelloProcessor
\* sets it, or none, as in send_noreply(received.from_pid, payload).
ReplyRefs(e) == {e.ident, NoneS}

\* lines 496-500 with HelloProcessor._process_message: the processor
\* answers with send_noreply(received.from_pid, payload, received.ident),
\* or without the third argument
ResponderProcessMessage(p) ==
    /\ p = Responder
    /\ ppc[p] = "recv"
    /\ pc[p] = "idle"
    /\ IF IsStopSignal(p, received[p])
       THEN /\ ppc' = [ppc EXCEPT ![p] = "exited"]
            /\ NoExchangeCall
            /\ UNCHANGED outcome
       ELSE /\ \E payload \in ReplyPayloads, ref \in ReplyRefs(received[p]) :
                 Enter(p, SendCall(received[p].from_pid,
                         MessageWrapper(pidOf[p], NoneS, payload, ref,
                                        nsent + 1)))
            /\ nsent' = nsent + 1
            /\ outcome' = [outcome EXCEPT ![p] = "None"]
            /\ ppc' = [ppc EXCEPT ![p] =
                         IF BreaksOn("None") THEN "exited" ELSE "reply"]
    /\ UNCHANGED <<pidOf, stopCalled, failed, errSent, execVars>>

\* A started RequestExecutor and a started processor that answers it.
ExecInit ==
    /\ ExchangeInit
    /\ ExecutorInit(TRUE)
    /\ ppc = [p \in PollThreads |-> "poll"]
    /\ pidOf = [p \in PollThreads |->
                  IF p = Executor THEN ExecutorPid ELSE ResponderPid]

ExecNext ==
    \/ RunSend
    \/ RunRecv
    \/ Submit
    \/ \E t \in tasks : SendRequest(t)
    \/ \E t \in tasks : TimerElapses(t)
    \/ \E t \in tasks : CancelRequest(t)
    \/ \E t \in tasks : HandleMessage(t)
    \/ SenderStep
    \/ \E p \in PollThreads : PollRecv(p)
    \/ \E p \in PollThreads : ExecutorProcessMessage(p)
    \/ \E p \in PollThreads : ResponderProcessMessage(p)
    \/ \E c \in Callers : Acquire(c)
    \/ \E c \in Callers : CmdLock(c)
    \/ \E c \in Callers : CmdSend(c)
    \/ \E c \in Callers : CmdRecv(c)
    \/ \E c \in Callers : NotifyAll(c)
    \/ \E c \in Callers : Release(c)
    \/ \E c \in Callers : Wait(c)
    \/ \E c \in Callers : Reacquire(c)
    \/ \E c \in Callers : Finish(c)

ExecSpec == ExecInit /\ [][ExecNext]_vars

\* The entries of the out-queue for which task_done() has not been called:
\* those not taken yet and the one whose send has not returned.
Unfinished ==
    Len(outQueue) + (IF spc = "send" /\ pc[Sender] # "idle" THEN 1 ELSE 0)

\* RequestExecutor.stop, line 639: super().stop(wait) is
\* self.send_noreply(self._pid, 'stop'), whose _send_message puts the
\* envelope on the out-queue
StopSelf ==
    /\ spc # "off"
    /\ stp = "idle"
    /\ outQueue' = Append(outQueue,
           [to_pid |-> pidOf[Executor],
            message |-> MessageWrapper(pidOf[Executor], NoneS, StopMessage,
                                       NoneS, nsent + 1)])
    /\ nsent' = nsent + 1
    /\ stopCalled' = stopCalled \cup {Executor}
    /\ stp' = "sentinel"
    /\ ExchangeIdle
    /\ UNCHANGED <<ppc, pidOf, failed, errSent, outcome, futures, subs, tasks,
                   requests, spc>>

\* line 640: self._out_queue.put_nowait(None)
PutSentinel ==
    /\ stp = "sentinel"
    /\ outQueue' = Append(outQueue, NoneV)
    /\ stp' = "join"
    /\ NoExchangeCall
    /\ UNCHANGED <<procVars, futures, subs, tasks, requests, spc>>

\* line 641: self._out_queue.join() returns
JoinReturns ==
    /\ stp = "join"
    /\ Unfinished = 0
    /\ stp' = "runner"
    /\ NoExchangeCall
    /\ UNCHANGED <<procVars, futures, subs, tasks, requests, outQueue, spc>>

\* lines 642-644: self._runner.stop(wait); no connector was created
StopRunner ==
    /\ stp = "runner"
    /\ stp' = "done"
    /\ NoExchangeCall
    /\ UNCHANGED <<procVars, futures, subs, tasks, requests, outQueue, spc>>

\* Exchange.stop, called by the application while the routing loop runs
ExchangeStop(c) == running /\ CallStop(c)

\* submit, called by the application before it calls stop()
StopSubmit == stp = "idle" /\ Len(futures) < MaxStopSubmits /\ Submit

\* A RequestExecutor that is used and stopped, on an Exchange that may be
\* stopped as well.
StopNext ==
    \/ RunSend
    \/ RunRecv
    \/ RunStop
    \/ StopSubmit
    \/ \E t \in tasks : SendRequest(t)
    \/ \E t \in tasks : TimerElapses(t)
    \/ \E t \in tasks : CancelRequest(t)
    \/ \E t \in tasks : HandleMessage(t)
    \/ SenderStep
    \/ StopSelf
    \/ PutSentinel
    \/ JoinReturns
    \/ StopRunner
    \/ \E c \in Callers : ExchangeStop(c)
    \/ \E p \in PollThreads : PollRecv(p)
    \/ \E p \in PollThreads : ExecutorProcessMessage(p)
    \/ \E p \in PollThreads : ResponderProcessMessage(p)
    \/ \E c \in Callers : Acquire(c)
    \/ \E c \in Callers : CmdLock(c)
    \/ \E c \in Callers : CmdSend(c)
    \/ \E c \in Callers : CmdRecv(c)
    \/ \E c \in Callers : NotifyAll(c)
    \/ \E c \in Callers : Release(c)
    \/ \E c \in Callers : Wait(c)
    \/ \E c \in Callers : Reacquire(c)
    \/ \E c \in Callers : Finish(c)

StopSpec == ExecInit /\ [][StopNext]_vars

\* ------------------------------------- _send_request, statement by statement
\* The threads of the executor and the recipient run while the event loop
\* is inside _send_request.  A task that has left `async with
\* self._req_lock` and has not called _send_message yet carries the ident
\* of its message.
HoldsMessage(t) == t.kind = "send_request" /\ t.ident # NoneS

\* The event loop runs one task at a time, each up to its next suspension:
\* no task starts while _send_request is between two statements.
LoopFree == \A t \in tasks : ~HoldsMessage(t)

\* lines 701-706: the message gets its ident; under _req_lock, which is
\* free, the future fails when the ident is a key of the map and is
\* inserted otherwise
SendRequestInsert(t) ==
    /\ RunnerRunning
    /\ LoopFree
    /\ t \in tasks
    /\ t.kind = "send_request"
    /\ \E ident \in NewIdents :
        LET f == t.f IN
        /\ subs' = [subs EXCEPT ![f].ident = ident]
        /\ IF IsDuplicate(requests, ident)
           THEN /\ futures' = [futures EXCEPT ![f] =
                       WithException("Duplicate request identifier")]
                /\ tasks' = tasks \ {t}
                /\ UNCHANGED requests
           ELSE /\ requests' = ParkRequest(requests, ident, f)
                /\ tasks' = (tasks \ {t}) \cup {[t EXCEPT !.ident = ident]}
                /\ UNCHANGED futures
    /\ NoExchangeCall
    /\ UNCHANGED <<procVars, outQueue, spc, stp>>

\* lines 707-711: _send_message puts the envelope on the out-queue and
\* returns True; the cancellation is scheduled when the timeout is set
SendRequestPut(t) ==
    /\ RunnerRunning
    /\ t \in tasks
    /\ HoldsMessage(t)
    /\ LET f == t.f
           wrapper == MessageWrapper(pidOf[Executor], t.ident,
                                     subs[f].request, NoneS, nsent + 1)
       IN
       /\ subs' = [subs EXCEPT ![f].uid = wrapper.uid]
       /\ outQueue' = Append(outQueue,
              [to_pid |-> subs[f].to_pid, message |-> wrapper])
       /\ nsent' = nsent + 1
       /\ tasks' = IF Truthy(subs[f].timeout)
                   THEN RunTask(tasks \ {t},
                                CancelTask(t.ident, subs[f].timeout))
                   ELSE tasks \ {t}
    /\ ExchangeIdle
    /\ UNCHANGED <<procVars, futures, requests, spc, stp>>

\* _cancel_request and _handle_message_task as the event loop starts them
LoopCancelRequest(t) == LoopFree /\ CancelRequest(t)
LoopHandleMessage(t) == LoopFree /\ HandleMessage(t)

StepNext ==
    \/ RunSend
    \/ RunRecv
    \/ Submit
    \/ \E t \in tasks : SendRequestInsert(t)
    \/ \E t \in tasks : SendRequestPut(t)
    \/ \E t \in tasks : TimerElapses(t)
    \/ \E t \in tasks : LoopCancelRequest(t)
    \/ \E t \in tasks : LoopHandleMessage(t)
    \/ SenderStep
    \/ \E p \in PollThreads : PollRecv(p)
    \/ \E p \in PollThreads : ExecutorProcessMessage(p)
    \/ \E p \in PollThreads : ResponderProcessMessage(p)
    \/ \E c \in Callers : Acquire(c)
    \/ \E c \in Callers : CmdLock(c)
    \/ \E c \in Callers : CmdSend(c)
    \/ \E c \in Callers : CmdRecv(c)
    \/ \E c \in Callers : NotifyAll(c)
    \/ \E c \in Callers : Release(c)
    \/ \E c \in Callers : Wait(c)
    \/ \E c \in Callers : Reacquire(c)
    \/ \E c \in Callers : Finish(c)

StepSpec == ExecInit /\ [][StepNext]_vars

Next ==
    \/ RunSend
    \/ RunRecv
    \/ RunStatus
    \/ RunStop
    \/ \E c \in Callers : CallSend(c)
    \/ \E c \in Callers : CallRecv(c)
    \/ \E c \in Callers : CallStatus(c)
    \/ \E c \in Callers : CallStop(c)
    \/ \E c \in Callers : Acquire(c)
    \/ \E c \in Callers : CmdLock(c)
    \/ \E c \in Callers : CmdSend(c)
    \/ \E c \in Callers : CmdRecv(c)
    \/ \E c \in Callers : NotifyAll(c)
    \/ \E c \in Callers : Release(c)
    \/ \E c \in Callers : Wait(c)
    \/ \E c \in Callers : Expire(c)
    \/ \E c \in Callers : Reacquire(c)
    \/ \E c \in Callers : Finish(c)

Spec == Init /\ [][Next]_vars

\* Scheduling assumed for the progress properties: the routing loop and
\* every caller inside a call keep taking their steps, and a lock that is
\* free again and again is eventually obtained.  Nothing obliges a caller to
\* start a call, nor a timeout to elapse.
\* one iteration of the routing loop
Run == RunSend \/ RunRecv \/ RunStatus \/ RunStop

\* a caller obtains the condition's lock
TakeLock(c) == Acquire(c) \/ Reacquire(c)

\* any other step of a caller inside a call
InCall(c) ==
    \/ CmdLock(c) \/ CmdSend(c) \/ CmdRecv(c)
    \/ NotifyAll(c) \/ Release(c) \/ Wait(c) \/ Finish(c)

Fairness ==
    /\ WF_vars(Run)
    /\ \A c \in AppThreads : SF_vars(TakeLock(c)) /\ WF_vars(InCall(c))

FairSpec == Init /\ [][Next]_vars /\ Fairness

\* The same scheduling for the processors: a poll thread keeps going round
\* its loop.  Nothing obliges the application to send or to call stop().
LoopStep(p) == PollRecv(p) \/ ProcessMessage(p)

ProcFairness ==
    /\ WF_vars(Run)
    /\ \A c \in Producers \cup PollThreads :
          SF_vars(TakeLock(c)) /\ WF_vars(InCall(c))
    /\ \A p \in PollThreads : WF_vars(LoopStep(p))

ProcFairSpec == ProcInit /\ [][ProcNext]_vars /\ ProcFairness

\* The same scheduling for a RequestExecutor: its sender thread and its
\* event loop keep running and time passes.  Nothing obliges the
\* application to call submit.
EventLoopStep ==
    \E t \in tasks : SendRequest(t) \/ CancelRequest(t) \/ HandleMessage(t)

TimePasses == \E t \in tasks : TimerElapses(t)

\* a step of the sender thread or of a poll thread, in a call or between
\* two calls
ThreadStep(c) ==
    \/ InCall(c)
    \/ c = Sender /\ SenderStep
    \/ c \in PollThreads /\ PollRecv(c)
    \/ c \in PollThreads /\ ExecutorProcessMessage(c)
    \/ c \in PollThreads /\ ResponderProcessMessage(c)

ExecFairness ==
    /\ WF_vars(Run)
    /\ \A c \in PollThreads \cup {Sender} :
          SF_vars(TakeLock(c)) /\ WF_vars(ThreadStep(c))
    /\ WF_vars(EventLoopStep)
    /\ WF_vars(TimePasses)

ExecFairSpec == ExecInit /\ [][ExecNext]_vars /\ ExecFairness

\* The same scheduling when the executor is stopped: the thread that called
\* stop() goes on, and so does the application thread inside Exchange.stop.
\* Nothing obliges the application to call either.
StopStep == PutSentinel \/ JoinReturns \/ StopRunner

StopFairness ==
    /\ ExecFairness
    /\ \A c \in Producers : SF_vars(TakeLock(c)) /\ WF_vars(InCall(c))
    /\ WF_vars(StopStep)

StopFairSpec == ExecInit /\ [][StopNext]_vars /\ StopFairness

\* ------------------------------------------------------------ properties
IsPrefix(s, t) == Len(s) <= Len(t) /\ SubSeq(t, 1, Len(s)) = s

\* the wrappers obtained by recv(r), in order
ReturnedWrappers(r) == [i \in DOMAIN returned[r] |-> returned[r][i].wrapper]

IsRecv(c) == call[c].op = "recv"
IsWrapper(m) == m.kind = "wrapper"

\* C1: for every recipient r, the wrappers obtained by recv(r), in the order
\* the calls obtained them, are a prefix of the wrappers the routing loop
\* accepted for r, in the order it accepted them.
C1_RecvOrderIsSendOrder ==
    \A r \in Pids : IsPrefix(ReturnedWrappers(r), accepted[r])

\* two wrappers accepted for one recipient have both been received
C1_Witness ==
    \E r \in Pids : Len(accepted[r]) >= 2 /\ Len(returned[r]) >= 2

QueueLengths == [r \in DOMAIN queue |-> Len(queue[r])]

\* C2: between commands, pending is the total length of the queues, and it
\* is never negative.
C2_PendingIsQueuedTotal ==
    /\ pending = SumValues(QueueLengths)
    /\ pending >= 0

\* a recv found its queue empty after another recipient's queue was served,
\* while a wrapper is still queued
C2_Witness ==
    /\ pending >= 1
    /\ \E r \in DOMAIN processed : processed[r] >= 1
    /\ \E c \in Callers : IsRecv(c) /\ pc[c] = "finish" /\ locked[c]
                           /\ message[c] = NoneV

\* C3: when send is about to return true its wrapper is in queue[to_pid],
\* and a step changes queue[r] only by appending at its tail or by removing
\* its head as the reply to a recv command for r: nothing else removes or
\* reorders a queued wrapper.
C3_QueuedUntilReceived ==
    /\ [](\A c \in Callers :
            (call[c].op = "send" /\ pc[c] = "release" /\ message[c] = TrueV)
            => \E i \in DOMAIN QueueOf(call[c].to_pid) :
                    QueueOf(call[c].to_pid)[i] = call[c].wrapper)
    /\ [][\A r \in Pids :
            \/ QueueOf(r)' = QueueOf(r)
            \/ /\ pipeIn # <<>>
               /\ Head(pipeIn).op = "send" /\ Head(pipeIn).to_pid = r
               /\ QueueOf(r)' = Append(QueueOf(r), Head(pipeIn).wrapper)
            \/ /\ pipeIn # <<>>
               /\ Head(pipeIn).op = "recv" /\ Head(pipeIn).to_pid = r
               /\ QueueOf(r) # <<>>
               /\ QueueOf(r)' = Tail(QueueOf(r))
               /\ pipeOut' = Append(pipeOut, Head(QueueOf(r)))]_vars

\* a send returns true with its wrapper queued behind an earlier one, after
\* a recv for the other recipient found nothing
C3_Witness ==
    \E c \in Callers :
        /\ call[c].op = "send" /\ pc[c] = "release" /\ message[c] = TrueV
        /\ Len(QueueOf(call[c].to_pid)) >= 2
        /\ QueueOf(call[c].to_pid)[2] = call[c].wrapper

\* C4: a wrapper is obtained by at most one recv call, whichever consumers
\* receive on the recipient.
C4_DeliveredAtMostOnce ==
    \A r1 \in Pids, r2 \in Pids :
        \A i \in DOMAIN returned[r1], j \in DOMAIN returned[r2] :
            returned[r1][i].wrapper.uid = returned[r2][j].wrapper.uid
                => (r1 = r2 /\ i = j)

\* two consumers have each received a wrapper of the same recipient
C4_Witness ==
    \E r \in Pids :
        \E i \in DOMAIN returned[r], j \in DOMAIN returned[r] :
            returned[r][i].by # returned[r][j].by

ReturnedUids == UNION {{returned[r][i].wrapper.uid : i \in DOMAIN returned[r]}
                        : r \in Pids}

Parked(c, r) ==
    /\ IsRecv(c) /\ call[c].to_pid = r
    /\ call[c].blocking /\ call[c].timeout = NoneS
    /\ pc[c] = "wait"

\* C5: a wrapper accepted for r while a caller is parked in
\* recv(r, blocking=true, timeout=none) is eventually obtained by a recv(r),
\* as long as the routing loop is running.
C5_ParkedRecvIsWoken ==
    \A r \in Pids, u \in 1..MaxSends :
        ((\E c \in Callers : Parked(c, r))
            /\ QueueOf(r) # <<>> /\ Head(QueueOf(r)).uid = u)
        ~> (u \in ReturnedUids \/ ~running)

NeverWaits(c) ==
    IsRecv(c) /\ ~call[c].blocking /\ call[c].timeout = NoneS

\* C6: recv(r, blocking=false) without timeout never waits on the
\* condition; a recv command that finds queue[r] empty is answered None
\* and leaves queue, processed and pending as they were, and the call goes
\* on to return None.
C6_NonBlockingEmptyRecv ==
    /\ [](\A c \in Callers :
            NeverWaits(c) =>
                pc[c] \notin {"wait_enter", "wait", "reacq_notified",
                              "reacq_timeout"})
    /\ [][(/\ pipeIn # <<>>
           /\ Head(pipeIn).op = "recv"
           /\ QueueOf(Head(pipeIn).to_pid) = <<>>
           /\ pipeIn' # pipeIn)
          => /\ pipeOut' = Append(pipeOut, NoneV)
             /\ UNCHANGED <<queue, processed, pending>>]_vars
    /\ [][\A c \in Callers :
            (NeverWaits(c) /\ pc[c] = "cmd_recv" /\ pc'[c] # "cmd_recv"
                /\ Head(pipeOut) = NoneV)
            => (pc'[c] = "finish" /\ message'[c] = NoneV)]_vars

\* a non-blocking recv is about to return None, having asked the routing
\* loop
C6_Witness ==
    \E c \in Callers :
        NeverWaits(c) /\ pc[c] = "finish" /\ locked[c] /\ message[c] = NoneV

\* C7: recv(r, blocking=true, timeout=T) on a queue that stays empty returns
\* None, and only once the timeout has elapsed.
C7_TimedRecvReturnsAfterTimeout ==
    \A c \in Callers :
        (/\ IsRecv(c) /\ call[c].blocking /\ call[c].timeout # NoneS
         /\ pc[c] = "finish"
         /\ accepted[call[c].to_pid] = <<>>)
        => (message[c] = NoneV /\ expired[c])

\* C8: a recv(r, blocking=false) issued while queue[r] is not empty (its head
\* put there by a send that has returned) does not come back with None.
C8_NonBlockingRecvGetsHead ==
    [][\A c \in Callers :
        (/\ IsRecv(c) /\ ~call[c].blocking
         /\ pc[c] = "acquire" /\ pc'[c] # "acquire"
         /\ QueueOf(call[c].to_pid) # <<>>
         /\ \A d \in Callers :
                call[d].wrapper # Head(QueueOf(call[c].to_pid)))
        => ~(pc'[c] = "finish" /\ message'[c] = NoneV)]_vars

\* number of wrappers obtained by recv so far
ReturnedTotal == SumValues([r \in Pids |-> Len(returned[r])])

C10_StopDoesNotDrain ==
    /\ [][(/\ pipeIn # <<>>
           /\ Head(pipeIn).op = "stop"
           /\ pipeIn' # pipeIn)
          => (pipeOut' = Append(pipeOut, TrueV) /\ ~running')]_vars
    /\ [][~running =>
            /\ ~running'
            /\ UNCHANGED <<queue, processed, pending>>
            /\ IsPrefix(pipeIn, pipeIn')]_vars
    /\ [](\A c \in Callers :
            (afterStop[c] /\ IsRecv(c)) => message[c] = NoneV)

\* the loop has exited with a wrapper queued for r, and a recv(r) issued
\* afterwards has sent its command
C10_Witness ==
    /\ ~running
    /\ \E c \in Callers :
        /\ afterStop[c] /\ IsRecv(c) /\ pc[c] = "cmd_recv"
        /\ QueueOf(call[c].to_pid) # <<>>

\* ------------------------------------------- properties of the processors
\* The body of the loop has dealt with the envelope in `received`.
Handled(p) == ppc[p] \in {"poll", "reply", "exited"} /\ received[p] # NoneV

\* the envelope in `received` was sent to the processor's own identifier
ReceivedOnOwnPid(p) ==
    \E i \in DOMAIN accepted[pidOf[p]] : accepted[pidOf[p]][i] = received[p]

\* C11 as stated: once the loop has dealt with an envelope, the poll thread
\* has exited if and only if that envelope carries "stop".
C11_ExitsOnlyOnStopEnvelope ==
    \A p \in PollThreads :
        Handled(p) => (ppc[p] = "exited" <=> received[p].message = StopMessage)

\* C11, amended: once the loop has dealt with an envelope, which was sent to
\* the processor's own identifier, the poll thread has exited if and only
\* if the envelope carries "stop" or the handler returned False for it.
C11_ExitsOnStopOrFalse ==
    \A p \in PollThreads :
        /\ ppc[p] = "exited" => Handled(p)
        /\ Handled(p) =>
            /\ ReceivedOnOwnPid(p)
            /\ ppc[p] = "exited" <=>
                  (received[p].message = StopMessage \/ outcome[p] = "False")

\* one processor has exited on a stop envelope while another one, having
\* dealt with an envelope, polls on
C11_Witness ==
    \E p, q \in PollThreads :
        /\ ppc[p] = "exited" /\ received[p].message = StopMessage
        /\ ppc[q] = "recv" /\ received[q] # NoneV

\* C12: a poll thread whose handler returned exactly False has left the
\* loop and is in no further call to recv; one whose handler returned None
\* or True is back at the top of the loop, about to call recv.
C12_OnlyFalseEndsLoop ==
    \A p \in PollThreads :
        /\ outcome[p] = "False" => ppc[p] = "exited"
        /\ outcome[p] \in {"None", "True"} => ppc[p] = "poll"
        /\ ppc[p] = "exited" => pc[p] = "idle" /\ call[p] = NoCall

\* a handler returned False for an envelope that is no stop envelope
C12_Witness ==
    \E p \in PollThreads :
        /\ outcome[p] = "False" /\ ppc[p] = "exited"
        /\ received[p].message # StopMessage

\* the replies sent for the failing envelope e
RepliesTo(e) == {r \in errSent : r.cause = e.uid}

\* the number of times the routing loop has enqueued wrapper w for to_pid
TimesAccepted(to_pid, w) ==
    Cardinality({i \in DOMAIN accepted[to_pid] : accepted[to_pid][i] = w})

\* the processor is still inside the send call c
Sending(p, c) == ppc[p] = "reply" /\ call[p] = c

\* C13: for every envelope e on which a handler raised and whose payload is
\* no ExchangeError, the processor has made exactly one send: to e.from_pid,
\* of an envelope with ref = e.ident, ident unset, from_pid its own pid and
\* the ExchangeError "Exception during message processing" as payload; the
\* routing loop enqueues that envelope once, for e.from_pid and for no other
\* recipient, before the send returns.
C13_OneErrorReply ==
    \A f \in failed :
        f.wrapper.message \notin ExchangeErrors =>
            /\ Cardinality(RepliesTo(f.wrapper)) = 1
            /\ \A r \in RepliesTo(f.wrapper) :
                /\ r.by = f.by
                /\ r.call.op = "send"
                /\ r.call.to_pid = f.wrapper.from_pid
                /\ r.call.wrapper.ref = f.wrapper.ident
                /\ r.call.wrapper.ident = NoneS
                /\ r.call.wrapper.from_pid = pidOf[f.by]
                /\ r.call.wrapper.message = ProcessingError
                /\ TimesAccepted(r.call.to_pid, r.call.wrapper) <= 1
                /\ ~Sending(r.by, r.call) =>
                      TimesAccepted(r.call.to_pid, r.call.wrapper) = 1
                /\ \A to_pid \in Pids \ {r.call.to_pid} :
                      TimesAccepted(to_pid, r.call.wrapper) = 0

\* a handler raised on an envelope that has an ident, and the reply is
\* enqueued
C13_Witness ==
    \E f \in failed :
        /\ f.wrapper.message = "hello" /\ f.wrapper.ident = "i1"
        /\ \E r \in RepliesTo(f.wrapper) :
              TimesAccepted(f.wrapper.from_pid, r.call.wrapper) = 1

\* C14: a failing envelope that carries an ExchangeError is not answered,
\* no failing envelope is answered more than once, every reply sent by
\* _reply_with_error answers a failing envelope that carries no
\* ExchangeError, and so there are never more such replies than envelopes
\* sent by the application.
C14_NoErrorStorm ==
    /\ \A f \in failed :
          /\ f.wrapper.message \in ExchangeErrors => RepliesTo(f.wrapper) = {}
          /\ Cardinality(RepliesTo(f.wrapper)) <= 1
    /\ \A r \in errSent :
          \E f \in failed : /\ f.wrapper.uid = r.cause
                            /\ f.wrapper.message \notin ExchangeErrors
    /\ Cardinality(errSent) <= Posted

\* a processor failed on the error reply another processor sent it
C14_Witness ==
    \E f \in failed, r \in errSent :
        /\ f.wrapper = r.call.wrapper
        /\ f.by # r.by
        /\ ppc[f.by] = "recv"

\* C15: a poll thread whose handler raised on the envelope in `received`
\* has not left the loop: it is sending the error reply or is about to call
\* recv again.
C15_RaiseKeepsLoop ==
    \A p \in PollThreads :
        outcome[p] = "raise" =>
            /\ ppc[p] \in {"poll", "reply"}
            /\ [wrapper |-> received[p], by |-> p] \in failed

\* a processor whose handler raised on one envelope has gone on to receive
\* a later one
C15_Witness ==
    \E f \in failed :
        /\ ppc[f.by] = "recv" /\ pc[f.by] = "idle"
        /\ received[f.by] # f.wrapper

\* C16: once stop() has been called on a started processor, its own poll
\* thread eventually exits (and join() returns), whatever identifier the
\* other processor polls.
C16_StopEndsOwnPollThread ==
    \A p \in PollThreads : (p \in stopCalled) ~> (ppc[p] = "exited")

\* no other processor polls the identifier of p
SoleConsumer(p) == \A q \in PollThreads \ {p} : pidOf[q] # pidOf[p]

\* p has left its loop on a stop envelope, after its stop() was called
ExitedOnStop(p) ==
    /\ p \in stopCalled
    /\ ppc[p] = "exited"
    /\ received[p].message = StopMessage

\* the number of envelopes the routing loop accepted for p's identifier
\* before the stop envelope p has received
SentBeforeStop(p) ==
    Cardinality({i \in DOMAIN accepted[pidOf[p]] :
        \E j \in DOMAIN accepted[pidOf[p]] :
            i < j /\ accepted[pidOf[p]][j] = received[p]})

\* processed[p] as the routing loop holds it (what status reports, C9)
ProcessedFor(p) ==
    IF pidOf[p] \in DOMAIN processed THEN processed[pidOf[p]] ELSE 0

\* C17 as stated: when the only processor of an identifier has exited on the
\* stop envelope, processed[p] is the number N of envelopes sent to it before
\* the stop envelope.
C17_ProcessedIsSentBeforeStop ==
    \A p \in PollThreads :
        SoleConsumer(p) /\ ExitedOnStop(p) =>
            ProcessedFor(p) = SentBeforeStop(p)

\* C17, amended: when the only processor of an identifier has exited on the
\* stop envelope, processed[p] is N + 1: the N envelopes sent to it before
\* the stop envelope, and the stop envelope.
C17_ProcessedCountsStopEnvelope ==
    \A p \in PollThreads :
        SoleConsumer(p) /\ ExitedOnStop(p) =>
            ProcessedFor(p) = SentBeforeStop(p) + 1

\* a processor has exited on the stop envelope after one other envelope
C17_Witness ==
    \E p \in PollThreads :
        SoleConsumer(p) /\ ExitedOnStop(p) /\ SentBeforeStop(p) = 1

\* --------------------------------------- properties of the RequestExecutor
\* the envelopes the executor's poll thread has received
ExecutorReceived ==
    {returned[pidOf[Executor]][i].wrapper :
        i \in {j \in DOMAIN returned[pidOf[Executor]] :
                  returned[pidOf[Executor]][j].by = Executor}}

\* C18: a future that holds a result got it from an envelope the executor
\* received whose ref is set and equals the ident generated for that
\* future's submit, and the result is that envelope's message.
C18_ResultOnlyFromMatchingReply ==
    \A f \in DOMAIN futures :
        futures[f].state = "result" =>
            \E e \in ExecutorReceived :
                /\ e.uid = futures[f].by
                /\ e.ref # NoneS
                /\ e.ref = subs[f].ident
                /\ e.message = futures[f].value

\* one request is fulfilled while another one, parked under another ident,
\* is still pending
C18_Witness ==
    \E f, g \in DOMAIN futures :
        /\ futures[f].state = "result"
        /\ futures[g].state = "pending"
        /\ subs[g].ident \in DOMAIN requests
        /\ subs[g].ident # subs[f].ident

\* the state of the future of submit call f, "none" before the call
FutureState(f) == IF f \in DOMAIN futures THEN futures[f].state ELSE "none"

\* the request of submit call f is parked under its ident and on its way
RequestParked(f) == IF f \in DOMAIN subs THEN subs[f].uid > 0 ELSE FALSE

\* the routing loop has accepted, for the executor, an answer made after
\* the request of f whose ref is the ident of f
Answered(f) ==
    IF RequestParked(f)
    THEN \E i \in DOMAIN accepted[pidOf[Executor]] :
            /\ accepted[pidOf[Executor]][i].ref = subs[f].ident
            /\ accepted[pidOf[Executor]][i].uid > subs[f].uid
    ELSE FALSE

\* submit call f was made without timeout
Untimed(f) == IF f \in DOMAIN subs THEN subs[f].timeout = NoneS ELSE FALSE

\* no other request has been given the ident of the request of f
UniqueIdent(f) ==
    IF f \in DOMAIN subs
    THEN \A g \in DOMAIN subs \ {f} : subs[g].ident # subs[f].ident
    ELSE FALSE

\* C19: a request submitted without timeout, parked under an ident that no
\* other request has been given, and answered by the recipient with
\* ref = ident, eventually has a future that holds a result.
C19_AnsweredRequestResolves ==
    \A f \in 1..MaxSubmits :
        (Untimed(f) /\ UniqueIdent(f) /\ Answered(f))
            ~> (FutureState(f) = "result")

\* submit call f was made with a timeout, of any value
Timed(f) == IF f \in DOMAIN subs THEN subs[f].timeout # NoneS ELSE FALSE

\* a cancellation of the request of f is under way
CancelPending(f) ==
    \E t \in tasks : t.kind = "cancel" /\ t.ident = subs[f].ident

\* C20: a request submitted with a timeout and parked has a future that is
\* done, or a cancellation under way that cancels it when the timeout has
\* elapsed; and its future is not cancelled before the timeout has elapsed.
C20_TimedRequestIsCancelled ==
    \A f \in DOMAIN futures :
        Timed(f) /\ RequestParked(f) =>
            /\ Done(futures[f]) \/ CancelPending(f)
            /\ futures[f].state = "cancelled" => futures[f].slept

\* a future that is done keeps its state, its result and its exception
TerminalStateKept ==
    \A f \in DOMAIN futures : Done(futures[f]) => futures'[f] = futures[f]

\* the step ends a _handle_message_task
HandlesReply == \E t \in tasks : t.kind = "handle" /\ t \notin tasks'

\* C21: no step changes a future that is done, be it the cancellation of a
\* request whose future holds a result or the handling of a reply to a
\* request that was cancelled or fulfilled; handling a reply raises no
\* error and puts no envelope on the out-queue.
C21_TerminalStateIsStable ==
    /\ [][TerminalStateKept]_vars
    /\ [][HandlesReply => UNCHANGED <<outQueue, failed, errSent>>]_vars

\* the replies received with ref = the ident of f that are handled
HandledRepliesTo(f) ==
    {e \in ExecutorReceived :
        /\ e.ref = subs[f].ident
        /\ \A t \in tasks : t.received # e}

\* a reply to a cancelled request has been handled, and the timeout of a
\* fulfilled request has fired
C21_Witness ==
    \E f, g \in DOMAIN futures :
        /\ futures[f].state = "cancelled" /\ UniqueIdent(f)
        /\ HandledRepliesTo(f) # {}
        /\ futures[g].state = "result" /\ UniqueIdent(g)
        /\ Truthy(subs[g].timeout) /\ ~CancelPending(g)

\* the step ends the _send_request task of submit call f
SendsRequest(f) ==
    \E t \in tasks : t.kind = "send_request" /\ t.f = f /\ t \notin tasks'

\* the entries of the out-queue that carry a request with this ident
QueuedWith(q, ident) ==
    {i \in DOMAIN q : q[i] # NoneV /\ q[i].message.ident = ident}

\* C22: when _send_request generates an ident that is a key of the requests
\* map, the new future fails with "Duplicate request identifier" and the
\* map and the out-queue stay as they are; otherwise the ident is inserted
\* with the new future, the other entries stay, and one envelope with that
\* ident is appended to the out-queue.  An entry always holds the future of
\* the request that was given its ident and inserted.
C22_DuplicateIdentFails ==
    /\ [][\A f \in DOMAIN futures :
            SendsRequest(f) =>
                IF subs'[f].ident \in DOMAIN requests
                THEN /\ futures'[f] =
                            WithException("Duplicate request identifier")
                     /\ UNCHANGED <<requests, outQueue>>
                ELSE /\ futures'[f] = futures[f]
                     /\ DOMAIN requests' =
                            DOMAIN requests \cup {subs'[f].ident}
                     /\ requests'[subs'[f].ident] = f
                     /\ \A i \in DOMAIN requests : requests'[i] = requests[i]
                     /\ Len(outQueue') = Len(outQueue) + 1
                     /\ SubSeq(outQueue', 1, Len(outQueue)) = outQueue
                     /\ outQueue'[Len(outQueue')].message.ident =
                            subs'[f].ident]_vars
    /\ [](\A i \in DOMAIN requests :
            /\ subs[requests[i]].ident = i
            /\ subs[requests[i]].uid > 0)

\* a request was refused because its ident is the key of a request that is
\* still parked and pending
C22_Witness ==
    \E f, g \in DOMAIN futures :
        /\ futures[f] = WithException("Duplicate request identifier")
        /\ subs[g].ident = subs[f].ident
        /\ subs[g].ident \in DOMAIN requests
        /\ requests[subs[g].ident] = g
        /\ futures[g].state = "pending"

\* the sender thread is in exchange.send with the envelope of the request
\* of f, and the routing loop has exited without accepting it: the send
\* does not return true
SendRejected(f) ==
    IF RequestParked(f)
    THEN /\ ~running
         /\ call[Sender].op = "send"
         /\ call[Sender].wrapper.uid = subs[f].uid
         /\ \A i \in DOMAIN accepted[subs[f].to_pid] :
                accepted[subs[f].to_pid][i].uid # subs[f].uid
    ELSE FALSE

\* the future of submit call f has failed with this text
FailedWith(f, text) ==
    IF f \in DOMAIN futures
    THEN futures[f] = WithException(text)
    ELSE FALSE

\* C23: when exchange.send does not return true for the envelope of a
\* submitted request, the future of the request eventually fails with
\* "Request could not be processed".
C23_RejectedSendFailsFuture ==
    \A f \in 1..MaxSubmits :
        SendRejected(f) ~> FailedWith(f, "Request could not be processed")

\* C24: under fair scheduling, once RequestExecutor.stop waits in
\* out_queue.join() it eventually returns and the executor's poll loop
\* eventually exits, as long as the routing loop is running.
C24_StopReturns ==
    /\ (stp = "join") ~> (stp = "done" \/ ~running)
    /\ (stp = "join") ~> (ppc[Executor] = "exited" \/ ~running)

\* the step ends the _handle_message_task of an envelope whose ref is set
HandlesRef ==
    \E t \in tasks :
        t.kind = "handle" /\ t \notin tasks' /\ Truthy(t.received.ref)

\* C25: when the executor has handled an envelope whose ref is set, no
\* entry of the requests map holds a done future and every entry whose
\* future is pending is still there; no other step removes an entry, so a
\* cancelled request's entry stays until such an envelope is handled.
C25_SweepIsOnlyCollector ==
    /\ [][HandlesRef =>
            /\ \A i \in DOMAIN requests' : ~Done(futures'[requests'[i]])
            /\ \A i \in DOMAIN requests :
                  ~Done(futures'[requests[i]]) =>
                      (i \in DOMAIN requests' /\ requests'[i] = requests[i])
         ]_vars
    /\ [][~HandlesRef =>
            \A i \in DOMAIN requests :
                i \in DOMAIN requests' /\ requests'[i] = requests[i]]_vars

\* the entry of a cancelled request is still in the map after an envelope
\* without ref has been handled, and another request is submitted
C25_Witness ==
    \E f, g \in DOMAIN futures :
        /\ futures[f].state = "cancelled"
        /\ subs[f].ident \in DOMAIN requests
        /\ \E e \in ExecutorReceived :
              e.ref = NoneS /\ \A t \in tasks : t.received # e
        /\ f < g

\* the envelopes the routing loop accepted for r that came through the
\* executor's out-queue, in the order it accepted them
FromOutQueue(r) ==
    SelectSeq(accepted[r], LAMBDA w : w.from_pid = pidOf[Executor])

\* C26: the envelopes of the executor that the routing loop has accepted
\* for a recipient are in the order in which they were put on the
\* out-queue (the order of their uids), and the sender thread is in one
\* send at a time, with an envelope that is no longer on the out-queue.
C26_SenderKeepsOrder ==
    /\ \A r \in Pids :
          \A i, j \in DOMAIN FromOutQueue(r) :
              i < j => FromOutQueue(r)[i].uid < FromOutQueue(r)[j].uid
    /\ \A i \in DOMAIN outQueue :
          outQueue[i] # NoneV => call[Sender].wrapper # outQueue[i].message

\* two requests put on the out-queue have been accepted for the responder
C26_Witness ==
    \E f, g \in DOMAIN subs :
        /\ f # g /\ subs[f].uid > 0 /\ subs[g].uid > 0
        /\ Len(FromOutQueue(ResponderPid)) = 2

\* ------------------------------------ properties of the Exchange, continued
\* the call of c has reached the statement that returns
Returning(c) == pc[c] \in {"notify", "release", "finish"}

\* C27: a send, recv or status call issued after the routing loop has exited
\* never comes to return.
C27_CallsAfterExitBlock ==
    \A c \in Callers :
        (afterStop[c] /\ call[c].op \in {"send", "recv", "status"})
            => ~Returning(c)

\* c is in recv(r, blocking=true) without timeout
BlockingRecv(c) == IsRecv(c) /\ call[c].blocking /\ call[c].timeout = NoneS

\* C28: a recv(r) with blocking=true and no timeout that returns, returns
\* an envelope, one the routing loop accepted for r and handed to this call;
\* between a wakeup and its return the call holds the condition lock.
C28_BlockingRecvReturnsEnvelope ==
    \A c \in Callers :
        (BlockingRecv(c) /\ pc[c] = "finish") =>
            /\ message[c] # NoneV
            /\ IsWrapper(message[c])
            /\ \E i \in DOMAIN returned[call[c].to_pid] :
                  /\ returned[call[c].to_pid][i].wrapper = message[c]
                  /\ returned[call[c].to_pid][i].by = c
            /\ \E i \in DOMAIN accepted[call[c].to_pid] :
                  accepted[call[c].to_pid][i] = message[c]
            /\ locked[c] /\ condLock = c

\* a blocking recv that had to wait returns the second envelope sent to r,
\* another consumer having taken the first
C28_Witness ==
    \E c \in Callers :
        /\ BlockingRecv(c) /\ pc[c] = "finish" /\ waited[c]
        /\ Len(returned[call[c].to_pid]) = 2
        /\ returned[call[c].to_pid][1].by # c
        /\ returned[call[c].to_pid][2].by = c

\* the routing loop serves a command of this kind in the step
Serves(op) == pipeIn # <<>> /\ Head(pipeIn).op = op /\ pipeIn' # pipeIn

\* C29: for every recipient r, processed[r] (0 when absent) plus the length
\* of queue[r] is the number of sends accepted for r; processed[r] never
\* decreases; serving a send changes neither processed nor the queue of
\* another recipient; serving a recv for r changes neither the queue nor
\* the counter of another recipient.
C29_EnvelopesAreConserved ==
    /\ [](\A r \in Pids :
            ProcessedGet(processed, r) + Len(QueueOf(r)) = Len(accepted[r]))
    /\ [][\A r \in Pids :
            ProcessedGet(processed', r) >= ProcessedGet(processed, r)]_vars
    /\ [][Serves("send") =>
            /\ processed' = processed
            /\ \A r \in Pids \ {Head(pipeIn).to_pid} :
                  QueueOf(r)' = QueueOf(r)]_vars
    /\ [][Serves("recv") =>
            \A r \in Pids \ {Head(pipeIn).to_pid} :
                /\ QueueOf(r)' = QueueOf(r)
                /\ ProcessedGet(processed', r) = ProcessedGet(processed, r)
                /\ (r \in DOMAIN processed') = (r \in DOMAIN processed)
         ]_vars

\* both recipients have had an envelope dequeued, and a recv for a
\* recipient is being served
C29_Witness ==
    /\ \A r \in Pids : ProcessedGet(processed, r) = 1
    /\ pipeIn # <<>> /\ Head(pipeIn).op = "recv"

\* c is in a call that does not wait on the condition: send, status or a
\* recv with blocking=false and no timeout
InShortCall(c) == call[c].op \in {"send", "status"} \/ NeverWaits(c)

\* C30: under fair scheduling every send, status and non-blocking recv call
\* eventually returns, as long as the routing loop is running.
C30_ShortCallsReturn ==
    \A c \in Callers : InShortCall(c) ~> (call[c] = NoCall \/ ~running)

\* the step is the one in which _send_request puts the envelope of submit
\* call f on the out-queue
PutsEnvelopeOf(f) ==
    /\ \E t \in tasks : t.kind = "send_request" /\ t.f = f /\ t \notin tasks'
    /\ Len(outQueue') = Len(outQueue) + 1
    /\ outQueue'[Len(outQueue')] # NoneV
    /\ outQueue'[Len(outQueue')].message.ident = subs'[f].ident

\* the future of submit call f is in the requests map under its ident
IsParked(f) ==
    /\ subs[f].ident \in DOMAIN requests
    /\ requests[subs[f].ident] = f

\* the step handles a reply that carries this ref
HandlesReplyTo(ref) ==
    \E t \in tasks :
        t.kind = "handle" /\ t.received.ref = ref /\ t \notin tasks'

\* C31: when _send_request puts the envelope of a request on the out-queue
\* the future of the request is already in the requests map under the
\* ident of the envelope; and whenever a reply with ref = ident is handled,
\* the request that was given this ident is in the map, or its future is
\* done (it was in the map and was swept, or it failed as a duplicate and
\* its envelope was never sent), whatever the sender thread, the poll
\* thread and the recipient did in between.
C31_ParkedBeforeQueued ==
    /\ [][\A f \in DOMAIN subs : PutsEnvelopeOf(f) => IsParked(f)]_vars
    /\ [][\A f \in DOMAIN subs :
            Truthy(subs[f].ident) /\ HandlesReplyTo(subs[f].ident) =>
                IsParked(f) \/ Done(futures[f])]_vars

\* a request was parked, its envelope sent and answered, the reply handled
\* and given to its future, while _send_request of another request is
\* between the insertion and the put
C31_Witness ==
    \E f \in DOMAIN futures :
        /\ futures[f].state = "result"
        /\ \E e \in HandledRepliesTo(f) : futures[f].by = e.uid
        /\ \E t \in tasks : HoldsMessage(t) /\ t.f # f
====
